---- MODULE Spec2Model ----
(***************************************************************************)
(* SubprocessNodeController (sawtooth/manage/subproc.py): an in-memory     *)
(* registry _nodes of process handles, reconciled lazily with the state of *)
(* the operating system's processes by is_running.                         *)
(*                                                                         *)
(* Each public method is a sequence of steps of the calling thread; the    *)
(* managed processes are the environment and may exit between any two      *)
(* steps.  Spec has one calling thread (the callers are serialized);       *)
(* SpecConc has two unsynchronised threads on the same controller.         *)
(* Popen.terminate/kill are os.kill on the pid, as in the Python 2 build   *)
(* this code targets (dict.keys() is a list copy there as well).           *)
(***************************************************************************)
EXTENDS Integers, Sequences, FiniteSets, TLC

\* ---------------------------------------------------------------- bounds
MaxProcs == 3

Nodes == {"n1", "n2"}
Callers == {1, 2}
Pids == 1..MaxProcs
NoHandle == 0

VARIABLES
    nodes,          \* self._nodes: node name -> pid of the handle, NoHandle = no entry
    os,             \* the process table: pid -> "unborn" | "alive" | "dead"
    owner,          \* pid -> the node name start spawned it for
    returncode,     \* handle.returncode is not None (a poll has reported the exit)
    dirExists,      \* os.path.exists(config_dir)
    bootstrapFile,  \* node name -> content of <node_name>_bootstrap.json (<<>> = no file)
    bootstrapped,   \* node name -> a two-step bootstrap has completed for it
    helper,         \* caller -> the helper process create_genesis_block waits on
    pc,             \* caller -> position in the method it runs
    op,             \* caller -> the public method it runs (or ran last)
    node,           \* caller -> node_name of the current is_running / method
    genesis,        \* caller -> node_args.genesis
    handle,         \* caller -> local variable handle
    ret_val,        \* caller -> local variable ret_val of is_running
    names,          \* caller -> get_node_names: names still to filter
    acc,            \* caller -> get_node_names: the list built so far
    result,         \* caller -> "pending" | "ok" | the exception that reached the caller
    value,          \* caller -> value returned by is_running
    trace,          \* caller -> the effects of the current (or last) call, in order
    pre             \* caller -> the registry, and the tracked names whose process had
                    \*           exited, when the call began

osvars == <<os, owner, returncode>>
fsvars == <<dirExists, bootstrapFile>>
locals == <<op, node, genesis, handle, ret_val, names, acc>>
vars == <<nodes, os, owner, returncode, dirExists, bootstrapFile, bootstrapped,
          helper, pc, op, node, genesis, handle, ret_val, names, acc, result,
          value, trace, pre>>

\* ---------------------------------------------------------------- helpers
Ev(e, n, p) == [e |-> e, n |-> n, p |-> p]

Has(s, e) == \E i \in 1..Len(s) : s[i].e = e

Count(s, e) == Cardinality({i \in 1..Len(s) : s[i].e = e})

Keys(reg) == {n \in Nodes : reg[n] # NoHandle}

Perms(S) == {s \in [1..Cardinality(S) -> S] : \A i, j \in 1..Cardinality(S) : s[i] = s[j] => i = j}

Spawned == {p \in Pids : os[p] # "unborn"}

\* self._v0_cfg and json.dumps(self._v0_cfg, indent=4): one line per list element
V0Cfg == <<[key |-> "InitialConnectivity", val |-> 0]>>

JsonDumpsFlat(cfg, indent) ==
    <<[ind |-> 0, text |-> "{", val |-> 0, comma |-> FALSE]>>
    \o [i \in 1..Len(cfg) |-> [ind |-> 0, text |-> cfg[i].key, val |-> cfg[i].val,
                                comma |-> i < Len(cfg)]]
    \o <<[ind |-> 0, text |-> "}", val |-> 0, comma |-> FALSE]>>

JsonDumps(cfg, indent) ==
    <<[ind |-> 0, text |-> "{", val |-> 0, comma |-> FALSE]>>
    \o [i \in 1..Len(cfg) |-> [ind |-> indent, text |-> cfg[i].key, val |-> cfg[i].val,
                                comma |-> i < Len(cfg)]]
    \o <<[ind |-> 0, text |-> "}", val |-> 0, comma |-> FALSE]>>

NoHelpers == [keygen |-> "none", genesis |-> "none"]

Exited(h) == h \in {"exit0", "exit1"}

\* Popen.poll(): non-blocking; latches returncode once the process has exited
Poll(rc, p) == [rc EXCEPT ![p] = rc[p] \/ os[p] = "dead"]

Snapshot == [nodes |-> nodes,
             bootstrapped |-> bootstrapped,
             exited |-> {n \in Nodes : nodes[n] # NoHandle /\ os[nodes[n]] = "dead"}]

\* ---------------------------------------------------------------- initial state
Idle(c) == pc[c] = "idle"

InitCommon ==
    /\ nodes = [n \in Nodes |-> NoHandle]
    /\ bootstrapped = [n \in Nodes |-> FALSE]
    /\ os = [p \in Pids |-> "unborn"]
    /\ owner = [p \in Pids |-> "n1"]
    /\ returncode = [p \in Pids |-> FALSE]
    /\ dirExists \in BOOLEAN
    /\ bootstrapFile = [n \in Nodes |-> <<>>]
    /\ helper = [c \in Callers |-> NoHelpers]
    /\ op = [c \in Callers |-> "none"]
    /\ node = [c \in Callers |-> "n1"]
    /\ genesis = [c \in Callers |-> FALSE]
    /\ handle = [c \in Callers |-> NoHandle]
    /\ ret_val = [c \in Callers |-> FALSE]
    /\ names = [c \in Callers |-> <<>>]
    /\ acc = [c \in Callers |-> <<>>]
    /\ result = [c \in Callers |-> "ok"]
    /\ value = [c \in Callers |-> FALSE]
    /\ trace = [c \in Callers |-> <<>>]
    /\ pre = [c \in Callers |-> Snapshot]

\* one calling thread: every public operation runs to completion before the next
Init ==
    /\ InitCommon
    /\ pc = [c \in Callers |-> IF c = 1 THEN "idle" ELSE "absent"]

\* two threads calling into the same controller without any lock; they start no
\* genesis node, so the configuration directory plays no part
InitConc ==
    /\ InitCommon
    /\ dirExists
    /\ pc = [c \in Callers |-> "idle"]

\* ---------------------------------------------------------------- the callers' conditions
\* is_running: "if ret_val is False" before the pop
EvictsNever(rv) == FALSE

Evicts(rv) == rv = FALSE

\* start: "if self.is_running(node_name) is False"
StartProceedsAlways(rv) == TRUE

StartProceeds(rv) == rv = FALSE

\* stop, kill: "if self.is_running(node_name) is True"
SignalProceedsAlways(rv) == TRUE

SignalProceeds(rv) == rv = TRUE

\* create_genesis_block: "if self.is_running(node_args.node_name) is False"
GenesisProceedsAlways(rv) == TRUE

GenesisProceeds(rv) == rv = FALSE

\* stop, kill: "except OSError as e"
CaughtNothing(exc) == FALSE

CaughtAnything(exc) == TRUE

Caught(exc) == exc = "OSError"

\* proc.wait() returns once the helper has exited
WaitReturnsAtOnce(h) == TRUE

WaitReturns(h) == Exited(h)

\* create_genesis_block: the value of proc.wait() (the exit status) is dropped
WaitOutcomeChecked(h) == IF h = "exit1" THEN "CalledProcessError" ELSE "none"

WaitOutcome(h) == "none"

\* start: "if handle.returncode is None" after the poll of the new handle
StartRegistersAlways(rc, h) == TRUE

StartRegistersNever(rc, h) == FALSE

StartRegisters(rc, h) == ~rc[h]

\* start: self._nodes[node_name] = {"Handle": handle}
RegisterIfAbsent(reg, n, h) == IF reg[n] = NoHandle THEN [reg EXCEPT ![n] = h] ELSE reg

Register(reg, n, h) == [reg EXCEPT ![n] = h]

\* stop, kill: the call returns after the signal, whatever the state of the process
\* (there is no handle.wait())
ReturnsOnlyAfterExit(st) == st = "dead"

ReturnsAfterSignal(st) == TRUE

\* stop, kill: no statement touches self._nodes after the signal
AfterSignalForgets(reg, n) == [reg EXCEPT ![n] = NoHandle]

AfterSignal(reg, n) == reg

\* is_running: ret_val stays False unless there is a handle and its returncode is None
RetValDefaultsTrue(h, rc) == h = NoHandle \/ ~rc[h]

RetVal(h, rc) == h # NoHandle /\ ~rc[h]

\* get_node_names: "[x for x in names if self.is_running(x)]"
KeepsAll(rv) == TRUE

Keeps(rv) == rv = TRUE

\* ---------------------------------------------------------------- calls
InFlightStarts == {c \in Callers : op[c] = "start" /\ pc[c] \in {"ir_poll", "ir_evict", "start_spawn"}}

Enter(c, o, n, g) ==
    /\ Idle(c)
    /\ pc' = [pc EXCEPT ![c] = "ir_poll"]
    /\ op' = [op EXCEPT ![c] = o]
    /\ node' = [node EXCEPT ![c] = n]
    /\ genesis' = [genesis EXCEPT ![c] = g]
    /\ handle' = [handle EXCEPT ![c] = NoHandle]
    /\ ret_val' = [ret_val EXCEPT ![c] = FALSE]
    /\ names' = [names EXCEPT ![c] = <<>>]
    /\ acc' = [acc EXCEPT ![c] = <<>>]
    /\ result' = [result EXCEPT ![c] = "pending"]
    /\ value' = [value EXCEPT ![c] = FALSE]
    /\ trace' = [trace EXCEPT ![c] = <<>>]
    /\ pre' = [pre EXCEPT ![c] = Snapshot]
    /\ helper' = [helper EXCEPT ![c] = NoHelpers]
    /\ UNCHANGED <<nodes, osvars, fsvars, bootstrapped>>

IsRunningCallOn(c, N) == \E n \in N : Enter(c, "is_running", n, FALSE)

IsRunningCall(c) == IsRunningCallOn(c, Nodes)

StartCallOn(c, N, G) ==
    /\ Cardinality(Spawned) + Cardinality(InFlightStarts) < MaxProcs
    /\ \E n \in N, g \in G : Enter(c, "start", n, g)

StartCall(c) == StartCallOn(c, Nodes, BOOLEAN)

StopCallOn(c, N) == \E n \in N : Enter(c, "stop", n, FALSE)

StopCall(c) == StopCallOn(c, Nodes)

KillCallOn(c, N) == \E n \in N : Enter(c, "kill", n, FALSE)

KillCall(c) == KillCallOn(c, Nodes)

CreateGenesisBlockCall(c) ==
    \E n \in Nodes : Enter(c, "create_genesis_block", n, TRUE)

\* names = self._nodes.keys(); then is_running(x) for each x in turn
GetNodeNamesCall(c) ==
    /\ Idle(c)
    /\ \E order \in Perms(Keys(nodes)) :
        /\ pc' = [pc EXCEPT ![c] = IF order = <<>> THEN "idle" ELSE "ir_poll"]
        /\ node' = [node EXCEPT ![c] = IF order = <<>> THEN node[c] ELSE Head(order)]
        /\ names' = [names EXCEPT ![c] = IF order = <<>> THEN <<>> ELSE Tail(order)]
        /\ result' = [result EXCEPT ![c] = IF order = <<>> THEN "ok" ELSE "pending"]
    /\ op' = [op EXCEPT ![c] = "get_node_names"]
    /\ genesis' = [genesis EXCEPT ![c] = FALSE]
    /\ handle' = [handle EXCEPT ![c] = NoHandle]
    /\ ret_val' = [ret_val EXCEPT ![c] = FALSE]
    /\ acc' = [acc EXCEPT ![c] = <<>>]
    /\ value' = [value EXCEPT ![c] = FALSE]
    /\ trace' = [trace EXCEPT ![c] = <<>>]
    /\ pre' = [pre EXCEPT ![c] = Snapshot]
    /\ helper' = [helper EXCEPT ![c] = NoHelpers]
    /\ UNCHANGED <<nodes, osvars, fsvars, bootstrapped>>

\* ---------------------------------------------------------------- is_running
\* lines 79-88: look the handle up, poll it, compute ret_val
IsRunningPoll(c) ==
    /\ pc[c] = "ir_poll"
    /\ LET h == nodes[node[c]]
           rc == IF h = NoHandle THEN returncode ELSE Poll(returncode, h)
       IN /\ handle' = [handle EXCEPT ![c] = h]
          /\ returncode' = rc
          /\ ret_val' = [ret_val EXCEPT ![c] = RetVal(h, rc)]
          /\ trace' = [trace EXCEPT ![c] =
                          IF h = NoHandle THEN @ ELSE Append(@, Ev(IF rc[h] THEN "poll_exited" ELSE "poll_alive",
                                                                node[c], h))]
    /\ pc' = [pc EXCEPT ![c] = "ir_evict"]
    /\ UNCHANGED <<nodes, os, owner, fsvars, bootstrapped, helper, op, node, genesis,
                   names, acc, result, value, pre>>

\* where the caller of is_running goes with the value it got
AfterIsRunning(o, rv, rest) ==
    CASE o = "is_running" -> "idle"
      [] o = "start" -> IF StartProceeds(rv) THEN "start_spawn" ELSE "idle"
      [] o \in {"stop", "kill"} -> IF SignalProceeds(rv) THEN "sig_lookup" ELSE "idle"
      [] o = "create_genesis_block" -> IF GenesisProceeds(rv) THEN "keygen_popen" ELSE "idle"
      [] o = "get_node_names" -> IF rest = <<>> THEN "idle" ELSE "ir_poll"

\* lines 89-92: pop the entry when ret_val is False, return ret_val to the caller
IsRunningEvict(c) ==
    /\ pc[c] = "ir_evict"
    /\ LET n == node[c]
           rv == ret_val[c]
           gone == Evicts(rv) /\ nodes[n] # NoHandle
           next == AfterIsRunning(op[c], rv, names[c])
       IN /\ nodes' = IF Evicts(rv) THEN [nodes EXCEPT ![n] = NoHandle] ELSE nodes
          /\ trace' = [trace EXCEPT ![c] =
                          IF gone THEN Append(@, Ev("evict", n, nodes[n])) ELSE @]
          /\ pc' = [pc EXCEPT ![c] = next]
          /\ result' = [result EXCEPT ![c] = IF next = "idle" THEN "ok" ELSE @]
          /\ value' = [value EXCEPT ![c] = IF op[c] = "is_running" THEN rv ELSE @]
          /\ acc' = [acc EXCEPT ![c] =
                          IF op[c] = "get_node_names" /\ Keeps(rv) THEN Append(@, n) ELSE @]
          /\ node' = [node EXCEPT ![c] =
                          IF op[c] = "get_node_names" /\ names[c] # <<>>
                          THEN Head(names[c]) ELSE @]
          /\ names' = [names EXCEPT ![c] =
                          IF op[c] = "get_node_names" /\ names[c] # <<>>
                          THEN Tail(names[c]) ELSE @]
    /\ UNCHANGED <<osvars, fsvars, bootstrapped, helper, op, genesis, handle, ret_val, pre>>

\* ---------------------------------------------------------------- start
\* lines 142-146: _construct_start_command (bootstrap file of a genesis node), Popen
StartSpawn(c) ==
    /\ pc[c] = "start_spawn"
    /\ LET n == node[c]
           p == CHOOSE q \in Pids \ Spawned : \A r \in Pids \ Spawned : q <= r
           wr == (IF genesis[c] /\ ~dirExists THEN <<Ev("makedirs", n, 0)>> ELSE <<>>)
                 \o (IF genesis[c] THEN <<Ev("write", n, 0)>> ELSE <<>>)
       IN \E outcome \in {"makedirs_fails", "popen_fails", "spawned"} :
            /\ outcome = "makedirs_fails" => genesis[c] /\ ~dirExists
            /\ outcome = "spawned" => Spawned # Pids
            /\ dirExists' = (dirExists \/ (genesis[c] /\ outcome # "makedirs_fails"))
            /\ bootstrapFile' = IF genesis[c] /\ outcome # "makedirs_fails"
                                THEN [bootstrapFile EXCEPT ![n] = JsonDumps(V0Cfg, 4)]
                                ELSE bootstrapFile
            /\ IF outcome = "spawned"
               THEN /\ os' = [os EXCEPT ![p] = "alive"]
                    /\ owner' = [owner EXCEPT ![p] = n]
                    /\ handle' = [handle EXCEPT ![c] = p]
                    /\ trace' = [trace EXCEPT ![c] = @ \o wr \o <<Ev("popen", n, p)>>]
                    /\ pc' = [pc EXCEPT ![c] = "start_poll"]
                    /\ UNCHANGED result
               ELSE /\ trace' = [trace EXCEPT ![c] =
                                    IF outcome = "popen_fails"
                                    THEN @ \o wr \o <<Ev("popen_failed", n, 0)>>
                                    ELSE Append(@, Ev("makedirs_failed", n, 0))]
                    /\ pc' = [pc EXCEPT ![c] = "idle"]
                    /\ result' = [result EXCEPT ![c] = "OSError"]
                    /\ UNCHANGED <<os, owner, handle>>
    /\ UNCHANGED <<nodes, returncode, bootstrapped, helper, op, node, genesis, ret_val,
                   names, acc, value, pre>>

\* lines 147-150: poll the new handle once, save it when it is still running
StartPoll(c) ==
    /\ pc[c] = "start_poll"
    /\ LET h == handle[c]
           rc == Poll(returncode, h)
       IN /\ returncode' = rc
          /\ nodes' = IF StartRegisters(rc, h) THEN Register(nodes, node[c], h) ELSE nodes
          /\ trace' = [trace EXCEPT ![c] =
                          @ \o <<Ev(IF rc[h] THEN "poll_exited" ELSE "poll_alive", node[c], h)>>
                            \o (IF StartRegisters(rc, h) /\ nodes[node[c]] # NoHandle
                                THEN <<Ev("overwrote", node[c], nodes[node[c]])>> ELSE <<>>)
                            \o (IF StartRegisters(rc, h)
                                THEN <<Ev("register", node[c], h)>> ELSE <<>>)]
    /\ pc' = [pc EXCEPT ![c] = "idle"]
    /\ result' = [result EXCEPT ![c] = "ok"]
    /\ UNCHANGED <<os, owner, fsvars, bootstrapped, helper, op, node, genesis, handle,
                   ret_val, names, acc, value, pre>>

\* ---------------------------------------------------------------- stop, kill
\* lines 162 / 178: handle = self._nodes[node_name]['Handle'], inside the try
SigLookup(c) ==
    /\ pc[c] = "sig_lookup"
    /\ LET h == nodes[node[c]]
           exc == IF h = NoHandle THEN "KeyError" ELSE "none"
       IN /\ handle' = [handle EXCEPT ![c] = h]
          /\ pc' = [pc EXCEPT ![c] = IF exc = "none" THEN "sig_send" ELSE "idle"]
          /\ result' = [result EXCEPT ![c] =
                          IF exc = "none" THEN @ ELSE IF Caught(exc) THEN "ok" ELSE exc]
          /\ trace' = [trace EXCEPT ![c] =
                          IF exc # "none" /\ Caught(exc)
                          THEN Append(@, Ev("debug_log", node[c], 0)) ELSE @]
    /\ UNCHANGED <<nodes, osvars, fsvars, bootstrapped, helper, op, node, genesis,
                   ret_val, names, acc, value, pre>>

\* lines 163-166 / 179-182: handle.terminate() or handle.kill(), i.e. os.kill(pid, sig);
\* a process that has exited is either still a zombie (the signal is accepted and
\* lost) or gone (OSError, no such process)
SigSend(c) ==
    /\ pc[c] = "sig_send"
    /\ ReturnsAfterSignal(os[handle[c]])
    /\ LET h == handle[c]
           sig == IF op[c] = "stop" THEN "terminate" ELSE "kill"
       IN \E outcome \in {"delivered", "delivered_exits", "zombie", "no_such_process"} :
            /\ outcome \in {"delivered", "delivered_exits"} <=> os[h] = "alive"
            /\ os' = IF outcome = "delivered_exits" THEN [os EXCEPT ![h] = "dead"] ELSE os
            /\ LET exc == IF outcome = "no_such_process" THEN "OSError" ELSE "none"
               IN /\ result' = [result EXCEPT ![c] =
                                  IF exc = "none" \/ Caught(exc) THEN "ok" ELSE exc]
                  /\ trace' = [trace EXCEPT ![c] =
                                  @ \o <<Ev(sig, node[c], h)>>
                                    \o (IF outcome = "delivered_exits"
                                        THEN <<Ev("exit", node[c], h)>> ELSE <<>>)
                                    \o (IF exc # "none" THEN <<Ev("raised", node[c], h)>> ELSE <<>>)
                                    \o (IF exc # "none" /\ Caught(exc)
                                        THEN <<Ev("debug_log", node[c], h)>> ELSE <<>>)]
    /\ nodes' = AfterSignal(nodes, node[c])
    /\ pc' = [pc EXCEPT ![c] = "idle"]
    /\ UNCHANGED <<owner, returncode, fsvars, bootstrapped, helper, op, node,
                   genesis, handle, ret_val, names, acc, value, pre>>

\* ---------------------------------------------------------------- create_genesis_block
\* lines 112-121: sawtooth keygen <node_name>, Popen
KeygenPopen(c) ==
    /\ pc[c] = "keygen_popen"
    /\ \E ok \in BOOLEAN :
        IF ok
        THEN /\ helper' = [helper EXCEPT ![c].keygen = "running"]
             /\ trace' = [trace EXCEPT ![c] = Append(@, Ev("keygen_popen", node[c], 0))]
             /\ pc' = [pc EXCEPT ![c] = "keygen_wait"]
             /\ UNCHANGED result
        ELSE /\ pc' = [pc EXCEPT ![c] = "idle"]
             /\ result' = [result EXCEPT ![c] = "OSError"]
             /\ trace' = [trace EXCEPT ![c] =
                             Append(@, Ev("keygen_popen_failed", node[c], 0))]
             /\ UNCHANGED helper
    /\ UNCHANGED <<nodes, osvars, fsvars, bootstrapped, locals, value, pre>>

\* line 122: proc.wait(); the exit status is not looked at
KeygenWait(c) ==
    /\ pc[c] = "keygen_wait"
    /\ WaitReturns(helper[c].keygen)
    /\ LET exc == WaitOutcome(helper[c].keygen)
       IN /\ pc' = [pc EXCEPT ![c] = IF exc = "none" THEN "genesis_popen" ELSE "idle"]
          /\ result' = [result EXCEPT ![c] = IF exc = "none" THEN @ ELSE exc]
    /\ trace' = [trace EXCEPT ![c] = Append(@, Ev("keygen_wait", node[c], 0))]
    /\ UNCHANGED <<nodes, osvars, fsvars, bootstrapped, helper, locals, value, pre>>

\* lines 124-131: sawtooth admin poet0-genesis --node <node_name>, Popen
GenesisPopen(c) ==
    /\ pc[c] = "genesis_popen"
    /\ \E ok \in BOOLEAN :
        IF ok
        THEN /\ helper' = [helper EXCEPT ![c].genesis = "running"]
             /\ trace' = [trace EXCEPT ![c] = Append(@, Ev("genesis_popen", node[c], 0))]
             /\ pc' = [pc EXCEPT ![c] = "genesis_wait"]
             /\ UNCHANGED result
        ELSE /\ pc' = [pc EXCEPT ![c] = "idle"]
             /\ result' = [result EXCEPT ![c] = "OSError"]
             /\ trace' = [trace EXCEPT ![c] =
                             Append(@, Ev("genesis_popen_failed", node[c], 0))]
             /\ UNCHANGED helper
    /\ UNCHANGED <<nodes, osvars, fsvars, bootstrapped, locals, value, pre>>

\* line 132: proc.wait(), then return
GenesisWait(c) ==
    /\ pc[c] = "genesis_wait"
    /\ WaitReturns(helper[c].genesis)
    /\ LET exc == WaitOutcome(helper[c].genesis)
       IN result' = [result EXCEPT ![c] = IF exc = "none" THEN "ok" ELSE exc]
    /\ trace' = [trace EXCEPT ![c] = Append(@, Ev("genesis_wait", node[c], 0))]
    /\ bootstrapped' = [bootstrapped EXCEPT ![node[c]] = TRUE]
    /\ pc' = [pc EXCEPT ![c] = "idle"]
    /\ UNCHANGED <<nodes, osvars, fsvars, helper, locals, value, pre>>

\* ---------------------------------------------------------------- the environment
\* a managed node process exits (on its own, or on a signal it got earlier)
ProcExit ==
    \E p \in Pids :
        /\ os[p] = "alive"
        /\ os' = [os EXCEPT ![p] = "dead"]
        /\ UNCHANGED <<nodes, owner, returncode, fsvars, bootstrapped, helper, pc, locals,
                       result, value, trace, pre>>

\* a helper process finishes, with exit status 0 or 1
HelperExit ==
    \E c \in Callers, k \in {"keygen", "genesis"}, status \in {"exit0", "exit1"} :
        /\ helper[c][k] = "running"
        /\ helper' = [helper EXCEPT ![c][k] = status]
        /\ UNCHANGED <<nodes, osvars, fsvars, bootstrapped, pc, locals, result, value,
                       trace, pre>>

\* ---------------------------------------------------------------- specifications
Step(c) ==
    \/ IsRunningCall(c)
    \/ StartCall(c)
    \/ StopCall(c)
    \/ KillCall(c)
    \/ CreateGenesisBlockCall(c)
    \/ GetNodeNamesCall(c)
    \/ IsRunningPoll(c)
    \/ IsRunningEvict(c)
    \/ StartSpawn(c)
    \/ StartPoll(c)
    \/ SigLookup(c)
    \/ SigSend(c)
    \/ KeygenPopen(c)
    \/ KeygenWait(c)
    \/ GenesisPopen(c)
    \/ GenesisWait(c)

Next ==
    \/ \E c \in Callers : Step(c)
    \/ ProcExit
    \/ HelperExit

Spec == Init /\ [][Next]_vars

\* two unsynchronised threads working on one node name
ConcNodes == {"n1"}

StepConc(c) ==
    \/ IsRunningCallOn(c, ConcNodes)
    \/ StartCallOn(c, ConcNodes, {FALSE})
    \/ StopCallOn(c, ConcNodes)
    \/ KillCallOn(c, ConcNodes)
    \/ IsRunningPoll(c)
    \/ IsRunningEvict(c)
    \/ StartSpawn(c)
    \/ StartPoll(c)
    \/ SigLookup(c)
    \/ SigSend(c)

NextConc ==
    \/ \E c \in Callers : StepConc(c)
    \/ ProcExit

SpecConc == InitConc /\ [][NextConc]_vars

\* the calling thread keeps running: a call that can take its next step takes it;
\* nothing makes a managed process or a helper ever exit
Proceed(c) ==
    \/ IsRunningPoll(c)
    \/ IsRunningEvict(c)
    \/ StartSpawn(c)
    \/ StartPoll(c)
    \/ SigLookup(c)
    \/ SigSend(c)
    \/ KeygenPopen(c)
    \/ KeygenWait(c)
    \/ GenesisPopen(c)
    \/ GenesisWait(c)

SpecLive == Init /\ [][Next]_vars /\ \A c \in Callers : WF_vars(Proceed(c))

\* ---------------------------------------------------------------- properties
Quiescent == \A c \in Callers : pc[c] \in {"idle", "absent"}

Returned(c, o) == Idle(c) /\ op[c] = o

SignalOps == {"stop", "kill"}

GenesisPcs == {"keygen_popen", "keygen_wait", "genesis_popen", "genesis_wait"}

OwnedBy(n) == {p \in Spawned : owner[p] = n}

LiveFor(n) == {p \in OwnedBy(n) : os[p] = "alive"}

\* C1: a start(n) whose is_running(n) check is true returns normally having spawned
\* nothing and written nothing, and leaves the registry as it found it, with n
\* still tracked (so two consecutive starts give one tracked process)
C1_StartIsIdempotent ==
    \A c \in Callers :
        (Returned(c, "start") /\ ret_val[c]) =>
            /\ result[c] = "ok"
            /\ \A e \in {"popen", "popen_failed", "write", "makedirs", "register"} :
                    ~Has(trace[c], e)
            /\ nodes = pre[c].nodes
            /\ nodes[node[c]] # NoHandle

\* a start of a genesis node (which would write the bootstrap file) found it running
C1_Witness ==
    \E c \in Callers :
        Returned(c, "start") /\ ret_val[c] /\ genesis[c] /\ nodes[node[c]] # NoHandle

\* C2: an is_running(n) called when the tracked process of n has exited returns
\* false and leaves n out of the registry; get_node_names returns no name that
\* was untracked, or tracked with an exited process, when it was called; and a
\* name enters the registry only when a start of that name saves a handle whose
\* poll found the process running
C2_EvictedOnNextPoll ==
    \A c \in Callers :
        (Returned(c, "is_running") /\ node[c] \in pre[c].exited) =>
            value[c] = FALSE /\ nodes[node[c]] = NoHandle

C2_NamesOmitStopped ==
    \A c \in Callers :
        Returned(c, "get_node_names") =>
            \A i \in 1..Len(acc[c]) : acc[c][i] \in Keys(pre[c].nodes) \ pre[c].exited

C2_OnlyStartRegisters ==
    \A n \in Nodes :
        (nodes[n] = NoHandle /\ nodes'[n] # NoHandle) =>
            \E c \in Callers :
                /\ op[c] = "start" /\ node[c] = n
                /\ pc[c] = "start_poll" /\ pc'[c] = "idle"
                /\ nodes'[n] = handle[c]
                /\ os[handle[c]] = "alive" /\ ~returncode'[handle[c]]

C2_LivenessPruning ==
    /\ [](C2_EvictedOnNextPoll /\ C2_NamesOmitStopped)
    /\ [][C2_OnlyStartRegisters]_vars

\* is_running(n) has returned false for a tracked, exited process and evicted it
C2_Witness ==
    \E c \in Callers :
        /\ Returned(c, "is_running") /\ node[c] \in pre[c].exited
        /\ Has(trace[c], "evict") /\ value[c] = FALSE

\* C3: whenever no public operation is in progress, no handle in the registry has
\* a returncode, i.e. none has had its exit reported by a poll
C3_NoObservedExitTracked ==
    Quiescent => \A n \in Nodes : nodes[n] # NoHandle => ~returncode[nodes[n]]

\* the registry lags: it tracks a process that has died unobserved, while another
\* process's exit has been observed and its handle is gone from the registry
C3_Witness ==
    /\ Quiescent
    /\ \E n \in Nodes : nodes[n] # NoHandle /\ os[nodes[n]] = "dead"
    /\ \E p \in Pids : returncode[p]

\* C4: stop(n) / kill(n) called when n is untracked, or tracked with an exited
\* process, returns normally and has sent no signal and spawned nothing
C4_NoOpStopKill ==
    \A c \in Callers :
        (/\ Idle(c) /\ op[c] \in SignalOps
         /\ (pre[c].nodes[node[c]] = NoHandle \/ node[c] \in pre[c].exited)) =>
            /\ result[c] = "ok"
            /\ \A e \in {"terminate", "kill", "popen", "popen_failed"} : ~Has(trace[c], e)

\* a stop of a tracked node whose process had exited has returned
C4_Witness ==
    \E c \in Callers : Returned(c, "stop") /\ node[c] \in pre[c].exited

\* C5: the genesis-authoring helper exists only once the key-generation helper has
\* exited, and its Popen comes after the keygen Popen and the wait on it
C5_KeygenBeforeGenesis ==
    \A c \in Callers :
        /\ helper[c].genesis # "none" => Exited(helper[c].keygen)
        /\ \A i \in 1..Len(trace[c]) :
                trace[c][i].e = "genesis_popen" =>
                    \E j, k \in 1..Len(trace[c]) :
                        /\ j < k /\ k < i
                        /\ trace[c][j].e = "keygen_popen"
                        /\ trace[c][k].e = "keygen_wait"

\* the genesis-authoring helper is running
C5_Witness ==
    \E c \in Callers : pc[c] = "genesis_wait" /\ helper[c].genesis = "running"

\* C6: a create_genesis_block whose is_running check is true launches no helper
C6_SkippedWhenRunning ==
    \A c \in Callers :
        (op[c] = "create_genesis_block" /\ ret_val[c]) =>
            /\ helper[c] = NoHelpers
            /\ pc[c] \notin GenesisPcs
            /\ ~Has(trace[c], "keygen_popen") /\ ~Has(trace[c], "genesis_popen")

\* create_genesis_block has returned for a node that was running
C6_Witness ==
    \E c \in Callers : Returned(c, "create_genesis_block") /\ ret_val[c] /\ result[c] = "ok"

\* C7 as claimed: the bootstrap of a node name runs only while no bootstrap of
\* that name has completed and no process was ever started for it
C7_BootstrapOnceBeforeFirstStart ==
    \A c \in Callers :
        (op[c] = "create_genesis_block" /\ pc[c] \in GenesisPcs) =>
            ~bootstrapped[node[c]] /\ OwnedBy(node[c]) = {}

\* C7 amended: a create_genesis_block that returns normally has run each helper
\* exactly once if it found the node not running and not at all if it found it
\* running, whatever bootstraps or starts of that node went before
C7_BootstrapOncePerCall ==
    \A c \in Callers :
        (Returned(c, "create_genesis_block") /\ result[c] = "ok") =>
            LET k == IF ret_val[c] THEN 0 ELSE 1
            IN /\ Count(trace[c], "keygen_popen") = k
               /\ Count(trace[c], "keygen_wait") = k
               /\ Count(trace[c], "genesis_popen") = k
               /\ Count(trace[c], "genesis_wait") = k
               /\ ~ret_val[c] => bootstrapped[node[c]]

\* a second bootstrap of a node that had been bootstrapped and started before
C7_Witness ==
    \E c \in Callers :
        /\ Returned(c, "create_genesis_block") /\ result[c] = "ok" /\ ~ret_val[c]
        /\ pre[c].bootstrapped[node[c]]
        /\ OwnedBy(node[c]) # {}
        /\ Has(trace[c], "genesis_wait")

\* C8: with the callers serialized, between operations a name that is not in the
\* registry has no live process started for it, and no name has two
C8_AbsentMeansStopped ==
    Quiescent =>
        \A n \in Nodes :
            /\ nodes[n] = NoHandle => LiveFor(n) = {}
            /\ Cardinality(LiveFor(n)) <= 1

\* a name was started twice and is tracked with its second process alive
C8_Witness ==
    /\ Quiescent
    /\ \E n \in Nodes :
        /\ Cardinality(OwnedBy(n)) >= 2
        /\ nodes[n] # NoHandle /\ LiveFor(n) = {nodes[n]}

\* C9: a stop(n) / kill(n) whose is_running check is true leaves the registry as it
\* was, n mapped to the same handle, and an entry leaves the registry only in the
\* eviction step of an is_running that got ret_val False
C9_RegistryKept ==
    \A c \in Callers :
        (Idle(c) /\ op[c] \in SignalOps /\ ret_val[c]) =>
            nodes = pre[c].nodes /\ nodes[node[c]] # NoHandle

C9_OnlyIsRunningEvicts ==
    \A n \in Nodes :
        (nodes[n] # NoHandle /\ nodes'[n] = NoHandle) =>
            \E c \in Callers :
                pc[c] = "ir_evict" /\ pc'[c] # "ir_evict" /\ node[c] = n /\ ~ret_val[c]

C9_StopKillDeferRemoval ==
    /\ []C9_RegistryKept
    /\ [][C9_OnlyIsRunningEvicts]_vars

\* the signal of a stop made the process exit at once; the entry is still there
C9_Witness ==
    \E c \in Callers :
        /\ Returned(c, "stop") /\ ret_val[c]
        /\ Has(trace[c], "exit")
        /\ nodes[node[c]] = handle[c] /\ os[handle[c]] = "dead"

\* C10: when the signal of stop / kill raises "no such process" because the process
\* died after the liveness check, the call logs it and returns normally, and the
\* registry is as it was
C10_RaceAbsorbed ==
    \A c \in Callers :
        (Idle(c) /\ op[c] \in SignalOps /\ Has(trace[c], "raised")) =>
            /\ result[c] = "ok"
            /\ Has(trace[c], "debug_log")
            /\ nodes = pre[c].nodes

\* a kill found the process alive, then the signal raised OSError
C10_Witness ==
    \E c \in Callers :
        /\ Returned(c, "kill") /\ ret_val[c]
        /\ Has(trace[c], "poll_alive") /\ Has(trace[c], "raised")
        /\ os[handle[c]] = "dead"

\* C11: get_node_names polls every name that was tracked when it was called and
\* returns, once each, exactly those whose poll found the process running; on
\* return the registry's keys are the returned names, each with the handle it had
Elems(s) == {s[i] : i \in 1..Len(s)}

PolledAs(s, e) == {s[i].n : i \in {j \in 1..Len(s) : s[j].e = e}}

C11_NamesAreTheLiveOnes ==
    \A c \in Callers :
        Returned(c, "get_node_names") =>
            /\ result[c] = "ok"
            /\ PolledAs(trace[c], "poll_alive") \cup PolledAs(trace[c], "poll_exited")
                    = Keys(pre[c].nodes)
            /\ Elems(acc[c]) = PolledAs(trace[c], "poll_alive")
            /\ Len(acc[c]) = Cardinality(Elems(acc[c]))
            /\ Keys(nodes) = Elems(acc[c])
            /\ \A n \in Elems(acc[c]) : nodes[n] = pre[c].nodes[n]

\* two names were tracked, one with an exited process: one is returned, one evicted
C11_Witness ==
    \E c \in Callers :
        /\ Returned(c, "get_node_names")
        /\ Cardinality(Keys(pre[c].nodes)) = 2
        /\ Len(acc[c]) = 1
        /\ Has(trace[c], "evict")

\* C13: a start(n) that found n not running and returns normally has n in the
\* registry, mapped to the new handle, exactly when the poll that followed the
\* Popen found the process running
C13_RegisteredIffPolledAlive ==
    \A c \in Callers :
        (Returned(c, "start") /\ result[c] = "ok" /\ ~ret_val[c]) =>
            \E i \in 1..Len(trace[c]) :
                /\ trace[c][i].e = "popen" /\ trace[c][i].p = handle[c]
                /\ i < Len(trace[c])
                /\ trace[c][i + 1].e \in {"poll_alive", "poll_exited"}
                /\ trace[c][i + 1].p = handle[c]
                /\ (trace[c][i + 1].e = "poll_alive") <=> (nodes[node[c]] = handle[c])
                /\ (trace[c][i + 1].e = "poll_exited") <=> (nodes[node[c]] = NoHandle)

\* the new process had exited at the poll and was not registered
C13_Witness ==
    \E c \in Callers :
        /\ Returned(c, "start") /\ result[c] = "ok" /\ ~ret_val[c]
        /\ Has(trace[c], "popen") /\ returncode[handle[c]]
        /\ nodes[node[c]] = NoHandle

\* C14: is_running(n) for a name that is not in the registry returns False
\* normally, without a poll or any other effect, and leaves the registry as it was
C14_UntrackedQueryIsPure ==
    \A c \in Callers :
        (Returned(c, "is_running") /\ pre[c].nodes[node[c]] = NoHandle) =>
            /\ value[c] = FALSE
            /\ result[c] = "ok"
            /\ trace[c] = <<>>
            /\ nodes = pre[c].nodes

\* an untracked name was queried while another name is tracked
C14_Witness ==
    \E c \in Callers :
        /\ Returned(c, "is_running") /\ pre[c].nodes[node[c]] = NoHandle
        /\ Keys(nodes) # {}

\* C17: a start(n) whose Popen fails ends with the OSError at the caller, n is not
\* in the registry and the entries of the other names are as they were
C17_SpawnFailurePropagates ==
    \A c \in Callers :
        (Returned(c, "start") /\ Has(trace[c], "popen_failed")) =>
            /\ result[c] = "OSError"
            /\ nodes[node[c]] = NoHandle
            /\ \A m \in Nodes \ {node[c]} : nodes[m] = pre[c].nodes[m]

\* the Popen of a start failed while another name is tracked
C17_Witness ==
    \E c \in Callers :
        /\ Returned(c, "start") /\ Has(trace[c], "popen_failed")
        /\ Keys(nodes) # {}

\* C18: when create_genesis_block has returned, no helper it launched is running,
\* and the registry is as it was except for the entry its is_running check evicted
C18_HelpersDoneNoneTracked ==
    \A c \in Callers :
        Returned(c, "create_genesis_block") =>
            /\ helper[c].keygen # "running" /\ helper[c].genesis # "running"
            /\ result[c] = "ok" /\ ~ret_val[c] =>
                    Exited(helper[c].keygen) /\ Exited(helper[c].genesis)
            /\ \A m \in Nodes \ {node[c]} : nodes[m] = pre[c].nodes[m]
            /\ nodes[node[c]] \in {pre[c].nodes[node[c]], NoHandle}
            /\ nodes[node[c]] = NoHandle <=> ~ret_val[c]

\* both helpers ran to their end; the call evicted the exited process of the node
C18_Witness ==
    \E c \in Callers :
        /\ Returned(c, "create_genesis_block") /\ result[c] = "ok"
        /\ Exited(helper[c].keygen) /\ Exited(helper[c].genesis)
        /\ Has(trace[c], "evict")
        /\ Keys(nodes) # {}

\* C19: the bootstrap file of a node either does not exist or holds the document
\* {"InitialConnectivity": 0} indented by 4; a start of a genesis node that went on
\* to Popen leaves exactly that document, whatever was there before; and the file
\* changes only in the spawn step of a start of a genesis node that found the node
\* not running
BootstrapDoc ==
    << [ind |-> 0, text |-> "{", val |-> 0, comma |-> FALSE],
       [ind |-> 4, text |-> "InitialConnectivity", val |-> 0, comma |-> FALSE],
       [ind |-> 0, text |-> "}", val |-> 0, comma |-> FALSE] >>

C19_SameDocument ==
    /\ \A n \in Nodes : bootstrapFile[n] \in {<<>>, BootstrapDoc}
    /\ \A c \in Callers :
        (op[c] = "start" /\ genesis[c]
            /\ (Has(trace[c], "popen") \/ Has(trace[c], "popen_failed"))) =>
                /\ Has(trace[c], "write")
                /\ bootstrapFile[node[c]] = BootstrapDoc
    /\ \A c \in Callers : (op[c] = "start" /\ ret_val[c]) => ~Has(trace[c], "write")

C19_OnlyStartWrites ==
    \A n \in Nodes :
        bootstrapFile'[n] # bootstrapFile[n] =>
            /\ bootstrapFile[n] = <<>> /\ bootstrapFile'[n] = BootstrapDoc
            /\ \E c \in Callers :
                /\ pc[c] = "start_spawn" /\ pc'[c] # "start_spawn"
                /\ node[c] = n /\ genesis[c] /\ ~ret_val[c]

C19_IdempotentOverwrite ==
    /\ []C19_SameDocument
    /\ [][C19_OnlyStartWrites]_vars

\* a genesis node was started a second time, over the file its first start wrote
C19_Witness ==
    \E c \in Callers :
        /\ Returned(c, "start") /\ genesis[c] /\ Has(trace[c], "write")
        /\ ~Has(trace[c], "makedirs")
        /\ Cardinality(OwnedBy(node[c])) >= 2
        /\ bootstrapFile[node[c]] = BootstrapDoc

\* C20: once the wait on the key-generation helper has returned, the call goes on
\* to the Popen of the genesis-authoring helper whatever the exit status was; the
\* only error the call can then end with is that Popen's own
C20_KeygenStatusIgnored ==
    \A c \in Callers :
        (op[c] = "create_genesis_block" /\ Has(trace[c], "keygen_wait")) =>
            /\ pc[c] \in {"genesis_popen", "genesis_wait", "idle"}
            /\ pc[c] # "genesis_popen" =>
                    Has(trace[c], "genesis_popen") \/ Has(trace[c], "genesis_popen_failed")
            /\ result[c] \in {"pending", "ok", "OSError"}
            /\ result[c] = "OSError" <=> Has(trace[c], "genesis_popen_failed")

\* key generation failed and the genesis-authoring helper was launched all the same
C20_Witness ==
    \E c \in Callers :
        /\ op[c] = "create_genesis_block"
        /\ helper[c].keygen = "exit1"
        /\ Has(trace[c], "genesis_popen")

\* C15: with two unsynchronised callers, a start(n) that saves its handle over an
\* entry another start(n) saved after this one's liveness check (both checks were
\* over before either saved) replaces that entry: the other handle is a different
\* process spawned for n, it is in the registry no more, and the registry tracks
\* the later handle only, though both processes may be alive
Overwritten(c) == {trace[c][i].p : i \in {j \in 1..Len(trace[c]) : trace[c][j].e = "overwrote"}}

C15_HandleLost ==
    \A c \in Callers :
        \A old \in Overwritten(c) :
            /\ op[c] = "start" /\ ~ret_val[c]
            /\ old # handle[c]
            /\ owner[old] = node[c] /\ owner[handle[c]] = node[c]
            /\ \A m \in Nodes : nodes[m] # old
            /\ Cardinality(OwnedBy(node[c])) >= 2

C15_LaterStartOverwrites ==
    \A c \in Callers :
        (/\ pc[c] = "start_poll" /\ pc'[c] = "idle"
         /\ nodes[node[c]] # NoHandle
         /\ os[handle[c]] = "alive") =>
            /\ nodes'[node[c]] = handle[c]
            /\ nodes[node[c]] \in Overwritten(c)'

C15_ConcurrentStartsLoseHandle ==
    /\ []C15_HandleLost
    /\ [][C15_LaterStartOverwrites]_vars

\* both callers have returned from start(n): two processes spawned for n are alive
\* and the registry tracks one of them
C15_Witness ==
    \E c \in Callers :
        /\ Quiescent
        /\ Returned(c, "start")
        /\ \E old \in Overwritten(c) :
            /\ LiveFor(node[c]) = {old, handle[c]}
            /\ nodes[node[c]] = handle[c]
            /\ \E d \in Callers \ {c} : Returned(d, "start") /\ handle[d] = old

\* stop / kill found the entry gone at the handle lookup after a liveness check
\* that was true
GoneAtLookup(c) == op[c] \in SignalOps /\ ret_val[c] /\ Idle(c) /\ handle[c] = NoHandle

\* C16 as claimed: stop / kill surface no error when another caller evicted the
\* entry between their liveness check and their handle lookup
C16_EvictionRaceAbsorbed ==
    \A c \in Callers : GoneAtLookup(c) => result[c] = "ok"

\* C16 amended: stop / kill return normally whenever the entry is still there at
\* the lookup (an OSError of the signal is absorbed); when the entry is gone at the
\* lookup the KeyError reaches the caller, and nothing was signalled or logged
C16_OnlyKeyErrorSurfaces ==
    \A c \in Callers :
        (Idle(c) /\ op[c] \in SignalOps) =>
            /\ result[c] = IF GoneAtLookup(c) THEN "KeyError" ELSE "ok"
            /\ GoneAtLookup(c) =>
                    \A e \in {"terminate", "kill", "raised", "debug_log"} : ~Has(trace[c], e)

\* a stop ended with KeyError; the other caller's is_running had evicted the entry
C16_Witness ==
    \E c \in Callers :
        /\ GoneAtLookup(c) /\ op[c] = "stop" /\ result[c] = "KeyError"
        /\ \E d \in Callers \ {c} :
            /\ Returned(d, "is_running") /\ node[d] = node[c]
            /\ Has(trace[d], "evict")

\* C12: a stop / kill that has been called returns, with no assumption that the
\* process ever exits; it can return with the process alive and still tracked
C12_StopKillReturn ==
    \A c \in Callers : (op[c] \in SignalOps /\ pc[c] # "idle") ~> Idle(c)

\* a kill has returned after signalling; the process is alive and in the registry
C12_Witness ==
    \E c \in Callers :
        /\ Returned(c, "kill") /\ result[c] = "ok"
        /\ Has(trace[c], "kill")
        /\ os[handle[c]] = "alive"
        /\ nodes[node[c]] = handle[c]

====
